---- MODULE Spec2Model ----
(***************************************************************************)
(* Model of merge_reports.py: entry-key extraction from report filenames,  *)
(* grouping of partial reports, chronological ordering by the date cell    *)
(* A2, row-level merging with deletion of the sources, and the batch run   *)
(* merge_and_move_reports over a folder.                                   *)
(*                                                                         *)
(* A filename is a sequence of one-character strings.  A report file is    *)
(* modelled by the designated worksheet it holds: the sequence of its      *)
(* rows, a row standing for the (value, style) pairs of its cells.  The    *)
(* folder is a function from the filenames it holds to their sheets.       *)
(***************************************************************************)
EXTENDS Integers, Sequences, FiniteSets, TLC

VARIABLES
    pc,           \* position of the running call
    name,         \* get_entry: its argument
    entry,        \* get_entry: its result
    excel_list,   \* find_daily_parts: its argument
    master_list,  \* find_daily_parts: its result (partials_list / master_list)
    err,          \* the exception that ended the call, or NoError
    folder,       \* the folder: filename -> sheet, for the files it holds
    folder0,      \* the folder as the run found it
    gi,           \* merge_daily_partial_reports: index of ilist in master_list
    new_list,     \* order_excel_list's result for the current group
    worksheets,   \* merge_daily_report_parts: sheets loaded so far
    opened,       \* filenames load_workbook was called on
    deleted,      \* filenames os.remove was called on
    written,      \* filenames a workbook was saved under
    failed_at,    \* index of the group whose ordering or merge raised, or 0
    relocated     \* whether the copy loop of merge_and_move_reports was entered

vars == <<pc, name, entry, excel_list, master_list, err, folder, folder0, gi,
          new_list, worksheets, opened, deleted, written, failed_at, relocated>>

-----------------------------------------------------------------------------
(* Bounds of the model.                                                    *)

\* all names over NameAlphabet up to this length are given to get_entry
MaxNameLen == 9
\* names built from digit runs: number of runs, and length of a run
MaxRuns == 2
MaxRun == 9
\* length of the list given to find_daily_parts on its own
MaxList == 5
\* number of report files in the folder of a run
MaxFiles == 4
\* data rows (rows after the two header rows) of a report in a run
DataRows == 1
\* rows of a sheet given to merge_daily_report_parts on its own
MaxRows == 3

-----------------------------------------------------------------------------
(* Filenames and get_entry.                                                *)

Digits == {"0", "1", "2", "3", "4", "5", "6", "7", "8", "9"}

\* r"[0-9]{8}": the number of digits the pattern matches
EntryDigits == 8

XlsxExt == <<".", "x", "l", "s", "x">>

Min(S) == CHOOSE x \in S : \A y \in S : x <= y

\* the pattern matches at position i: EntryDigits digits start there
MatchAt(nm, i) ==
    /\ i + EntryDigits - 1 <= Len(nm)
    /\ \A k \in i..(i + EntryDigits - 1) : nm[k] \in Digits

\* re.search from position i on: the leftmost position where the pattern
\* matches, 0 for None
RECURSIVE SearchFrom(_, _)
SearchFrom(nm, i) ==
    IF i + EntryDigits - 1 > Len(nm) THEN 0
    ELSE IF MatchAt(nm, i) THEN i
    ELSE SearchFrom(nm, i + 1)

re_search(nm) == SearchFrom(nm, 1)

\* get_entry with the pattern [0-9]{8,}: the match runs to the end of the digits
get_entry_greedy(nm) ==
    LET start == re_search(nm)
        stop == Min({e \in start..Len(nm) : e = Len(nm) \/ nm[e + 1] \notin Digits})
    IN  IF start # 0 THEN SubSeq(nm, 1, stop) ELSE <<>>

\* get_entry(name): name[:search_obj.end(0)], or "" without a match
get_entry(nm) ==
    LET start == re_search(nm)
    IN  IF start # 0 THEN SubSeq(nm, 1, start + EntryDigits - 1) ELSE <<>>

\* el.endswith(".xlsx")
IsXlsx(nm) ==
    /\ Len(nm) >= Len(XlsxExt)
    /\ SubSeq(nm, Len(nm) - Len(XlsxExt) + 1, Len(nm)) = XlsxExt

-----------------------------------------------------------------------------
(* Values shared by the specifications.                                    *)

NoError == "none"
Idle == <<>>

RECURSIVE Perms(_)
Perms(S) ==
    IF S = {} THEN {<<>>}
    ELSE UNION {{<<x>> \o p : p \in Perms(S \ {x})} : x \in S}

Range(s) == {s[i] : i \in DOMAIN s}

-----------------------------------------------------------------------------
(* Specification SpecEntry: get_entry applied to one filename.             *)

NameAlphabet == {"r", "1"}

RECURSIVE NamesUpTo(_)
NamesUpTo(n) ==
    IF n = 0 THEN {<<>>}
    ELSE LET shorter == NamesUpTo(n - 1)
         IN  shorter \cup {s \o <<c>> : s \in {t \in shorter : Len(t) = n - 1},
                                        c \in NameAlphabet}

DigitAt(k) == <<"0", "1", "2", "3", "4", "5", "6", "7", "8", "9">>[(k % 10) + 1]

\* a letter followed by a run of len digits
Segment(len) == <<"r">> \o [k \in 1..len |-> DigitAt(k)]

RECURSIVE Concat(_)
Concat(segs) ==
    IF segs = <<>> THEN <<>> ELSE Head(segs) \o Concat(Tail(segs))

RunNames ==
    UNION {{Concat([i \in 1..n |-> Segment(lens[i])]) \o XlsxExt :
                lens \in [1..n -> 0..MaxRun]} : n \in 1..MaxRuns}

EntryNames == NamesUpTo(MaxNameLen) \cup RunNames

InitEntry ==
    /\ pc = "get_entry"
    /\ name \in EntryNames
    /\ entry = Idle
    /\ excel_list = Idle /\ master_list = Idle /\ err = NoError
    /\ folder = Idle /\ folder0 = Idle /\ gi = 0 /\ new_list = Idle
    /\ worksheets = Idle /\ opened = {} /\ deleted = {} /\ written = {}
    /\ failed_at = 0 /\ relocated = FALSE

GetEntry ==
    /\ pc = "get_entry"
    /\ entry' = get_entry(name)
    /\ pc' = "get_entry_returned"
    /\ UNCHANGED <<name, excel_list, master_list, err, folder, folder0, gi,
                   new_list, worksheets, opened, deleted, written, failed_at,
                   relocated>>

NextEntry == GetEntry

SpecEntry == InitEntry /\ [][NextEntry]_vars

-----------------------------------------------------------------------------
(* The report files of the model.                                          *)

Key1 == <<"A", "2", "0", "2", "2", "0", "1", "0", "1">>
Key2 == <<"B", "2", "0", "2", "2", "0", "1", "0", "2">>

FileA1 == Key1 \o <<"a">> \o XlsxExt        \* A20220101a.xlsx
FileA2 == Key1 \o <<"7">> \o XlsxExt        \* A202201017.xlsx, nine digits
FileA3 == Key1 \o XlsxExt                   \* A20220101.xlsx
FileB1 == Key2 \o <<"a">> \o XlsxExt        \* B20220102a.xlsx
FileB2 == Key2 \o <<"b">> \o XlsxExt        \* B20220102b.xlsx
FileN  == <<"N", "2", "0", "2", "2">> \o XlsxExt   \* N2022.xlsx, no entry

FileSeq == <<FileA1, FileA2, FileA3, FileB1, FileB2, FileN>>
Files == Range(FileSeq)

\* a short tag of a file, to tell the rows of different files apart
Tag(f) == CHOOSE i \in DOMAIN FileSeq : FileSeq[i] = f

-----------------------------------------------------------------------------
(* find_daily_parts.                                                       *)

\* the first loop without the test for the empty entry
RECURSIVE ScanEntriesNoCheck(_, _, _, _)
ScanEntriesNoCheck(list, i, unique_entries, duplicate_entries) ==
    IF i > Len(list)
    THEN [err |-> NoError, unique |-> unique_entries, duplicate |-> duplicate_entries]
    ELSE LET e == get_entry(list[i])
         IN  IF e \in unique_entries
             THEN ScanEntriesNoCheck(list, i + 1, unique_entries,
                                     duplicate_entries \cup {e})
             ELSE ScanEntriesNoCheck(list, i + 1, unique_entries \cup {e},
                                     duplicate_entries)

\* the first loop: unique_entries and duplicate_entries, or the ValueError
RECURSIVE ScanEntries(_, _, _, _)
ScanEntries(list, i, unique_entries, duplicate_entries) ==
    IF i > Len(list)
    THEN [err |-> NoError, unique |-> unique_entries, duplicate |-> duplicate_entries]
    ELSE LET e == get_entry(list[i])
         IN  IF e \in unique_entries
             THEN ScanEntries(list, i + 1, unique_entries, duplicate_entries \cup {e})
             ELSE IF e = <<>>
             THEN [err |-> "MissingReportEntity", unique |-> unique_entries,
                   duplicate |-> duplicate_entries]
             ELSE ScanEntries(list, i + 1, unique_entries \cup {e}, duplicate_entries)

\* the inner loop stopping after two elements
TempListFirstTwo(list, dup) ==
    SubSeq(SelectSeq(list, LAMBDA el : get_entry(el) = dup), 1, 2)

\* temp_list: the elements of the list whose entry is dup, in list order
TempList(list, dup) == SelectSeq(list, LAMBDA el : get_entry(el) = dup)

\* the master lists the second loop can build: the set duplicate_entries is
\* iterated in an order the language does not fix
MasterLists(list, duplicate_entries) ==
    {[i \in DOMAIN order |-> TempList(list, order[i])] :
        order \in Perms(duplicate_entries)}

\* find_daily_parts building a list for every entry, not only the duplicates
find_daily_parts_every_entry(list) ==
    LET scan == ScanEntries(list, 1, {}, {})
    IN  [err |-> scan.err,
         results |-> IF scan.err = NoError
                     THEN MasterLists(list, scan.unique) ELSE {}]

\* find_daily_parts(excel_list): the error and the master lists it can return
find_daily_parts(list) ==
    LET scan == ScanEntries(list, 1, {}, {})
    IN  [err |-> scan.err,
         results |-> IF scan.err = NoError
                     THEN MasterLists(list, scan.duplicate) ELSE {}]

-----------------------------------------------------------------------------
(* Specification SpecGroup: find_daily_parts applied to one list.          *)

FileC == <<"C", "2", "0", "2", "2", "0", "1", "0", "3">> \o XlsxExt   \* C20220103.xlsx

\* the filenames the lists are made of: two entries with two files each, a
\* third entry, and a name without an entry
GroupFiles == {FileA1, FileA2, FileB1, FileB2, FileC, FileN}

RECURSIVE ListsUpTo(_)
ListsUpTo(n) ==
    IF n = 0 THEN {<<>>}
    ELSE LET shorter == ListsUpTo(n - 1)
         IN  shorter \cup {s \o <<f>> : s \in {t \in shorter : Len(t) = n - 1},
                                        f \in GroupFiles}

InitGroup ==
    /\ pc = "find_daily_parts"
    /\ excel_list \in ListsUpTo(MaxList)
    /\ master_list = Idle /\ err = NoError
    /\ name = Idle /\ entry = Idle
    /\ folder = Idle /\ folder0 = Idle /\ gi = 0 /\ new_list = Idle
    /\ worksheets = Idle /\ opened = {} /\ deleted = {} /\ written = {}
    /\ failed_at = 0 /\ relocated = FALSE

FindDailyParts ==
    /\ pc = "find_daily_parts"
    /\ LET r == find_daily_parts(excel_list)
       IN  \/ /\ r.err = NoError
              /\ master_list' \in r.results
              /\ pc' = "find_daily_parts_returned"
              /\ err' = NoError
           \/ /\ r.err # NoError
              /\ master_list' = master_list
              /\ pc' = "find_daily_parts_raised"
              /\ err' = r.err
    /\ UNCHANGED <<name, entry, excel_list, folder, folder0, gi, new_list,
                   worksheets, opened, deleted, written, failed_at, relocated>>

NextGroup == FindDailyParts

SpecGroup == InitGroup /\ [][NextGroup]_vars

-----------------------------------------------------------------------------
(* Sheets, the date cell and strptime.                                     *)

\* the text of a date cell, as its fields between the hyphens
Jan02 == <<"02", "Jan", "2022">>
Feb01 == <<"01", "Feb", "2022">>
Feb1  == <<"1", "Feb", "2022">>      \* the same day as Feb01, written without the zero
Dec03 == <<"03", "Dec", "2021">>
NotADate == <<"n/a">>
None == <<>>

DayNumber == [d \in {"1", "01", "2", "02", "3", "03"} |->
                 CASE d \in {"1", "01"} -> 1 [] d \in {"2", "02"} -> 2 [] OTHER -> 3]
MonthNumber == [b \in {"Jan", "Feb", "Dec"} |->
                 CASE b = "Jan" -> 1 [] b = "Feb" -> 2 [] OTHER -> 12]
YearNumber == [y \in {"2021", "2022"} |-> IF y = "2021" THEN 2021 ELSE 2022]

ParseError == <<>>

\* datetime.datetime.strptime(cell.value, "%d-%b-%Y"): <<year, month, day>>,
\* or ParseError for a value that is no string of that format
strptime(value) ==
    IF /\ Len(value) = 3
       /\ value[1] \in DOMAIN DayNumber
       /\ value[2] \in DOMAIN MonthNumber
       /\ value[3] \in DOMAIN YearNumber
    THEN <<YearNumber[value[3]], MonthNumber[value[2]], DayNumber[value[1]]>>
    ELSE ParseError

\* worksheet["A2"].value: the cell of row 2, None in a sheet without that row
CellA2(sheet) == IF Len(sheet) >= 2 THEN sheet[2] ELSE None

\* datetime's order
DateLess(a, b) ==
    \/ a[1] < b[1]
    \/ a[1] = b[1] /\ a[2] < b[2]
    \/ a[1] = b[1] /\ a[2] = b[2] /\ a[3] < b[3]

-----------------------------------------------------------------------------
(* order_excel_list.                                                       *)

\* the loop over listc without the test for a date seen before
RECURSIVE ScanDatesNoDuplicateCheck(_, _, _, _, _)
ScanDatesNoDuplicateCheck(listc, dir, i, reference, dates) ==
    IF i > Len(listc)
    THEN [err |-> NoError, reference |-> reference, dates |-> dates, n |-> i - 1]
    ELSE LET it == listc[i]
             date1 == IF it \in DOMAIN dir THEN strptime(CellA2(dir[it]))
                      ELSE ParseError
         IN  IF it \notin DOMAIN dir
             THEN [err |-> "FileNotFoundError", reference |-> reference,
                   dates |-> dates, n |-> i]
             ELSE IF date1 = ParseError
             THEN [err |-> "DateParseError", reference |-> reference,
                   dates |-> dates, n |-> i]
             ELSE ScanDatesNoDuplicateCheck(listc, dir, i + 1,
                                            (date1 :> it) @@ reference,
                                            dates \cup {date1})

\* the loop over listc: reference and dates, or the exception that ends it;
\* n is the number of files load_workbook was called on
RECURSIVE ScanDates(_, _, _, _, _)
ScanDates(listc, dir, i, reference, dates) ==
    IF i > Len(listc)
    THEN [err |-> NoError, reference |-> reference, dates |-> dates, n |-> i - 1]
    ELSE LET it == listc[i]
             date1 == IF it \in DOMAIN dir THEN strptime(CellA2(dir[it]))
                      ELSE ParseError
         IN  IF it \notin DOMAIN dir
             THEN [err |-> "FileNotFoundError", reference |-> reference,
                   dates |-> dates, n |-> i]
             ELSE IF date1 = ParseError
             THEN [err |-> "DateParseError", reference |-> reference,
                   dates |-> dates, n |-> i]
             ELSE IF date1 \in dates
             THEN [err |-> "DuplicateReportDate", reference |-> reference,
                   dates |-> dates, n |-> i]
             ELSE ScanDates(listc, dir, i + 1, (date1 :> it) @@ reference,
                            dates \cup {date1})

\* date_list.sort() without reverse=True
RECURSIVE SortAscending(_)
SortAscending(dates) ==
    IF dates = {} THEN <<>>
    ELSE LET least == CHOOSE d \in dates : \A e \in dates : ~DateLess(e, d)
         IN  <<least>> \o SortAscending(dates \ {least})

\* date_list.sort(reverse=True)
RECURSIVE SortDescending(_)
SortDescending(dates) ==
    IF dates = {} THEN <<>>
    ELSE LET latest == CHOOSE d \in dates : \A e \in dates : ~DateLess(d, e)
         IN  <<latest>> \o SortDescending(dates \ {latest})

\* order_excel_list(listc, folder): the exception, or the files by date
order_excel_list(listc, dir) ==
    LET scan == ScanDates(listc, dir, 1, <<>>, {})
        date_list == SortDescending(scan.dates)
    IN  [err |-> scan.err,
         n |-> scan.n,
         return_list |-> IF scan.err = NoError
                         THEN [q \in DOMAIN date_list |-> scan.reference[date_list[q]]]
                         ELSE <<>>]

-----------------------------------------------------------------------------
(* merge_daily_report_parts.                                               *)

\* iter_rows(min_row=3): the first row that is copied
MinRow == 3

\* the rows a sheet after the first contributes, from row 2 on
DataRowsFromSecond(sheet) == SubSeq(sheet, 2, Len(sheet))

\* sheet.iter_rows(min_row=3): the rows a sheet after the first contributes
IterRows(sheet) == SubSeq(sheet, MinRow, Len(sheet))

\* the second loop: worksheets[0] with the rows of every later sheet appended
RECURSIVE AppendSheets(_, _, _)
AppendSheets(sheets, idx, base) ==
    IF idx > Len(sheets) THEN base
    ELSE AppendSheets(sheets, idx + 1, base \o IterRows(sheets[idx]))

MergedSheet(sheets) == AppendSheets(sheets, 2, sheets[1])

\* the folder once load_workbook has returned, when files are removed only
\* after the save
KeepAfterLoad(dir, val) == dir

\* remove(fpath), right after load_workbook(fpath) has returned
RemoveAfterLoad(dir, val) == [f \in DOMAIN dir \ {val} |-> dir[f]]

\* the name of the first report itself
FirstReportName(reports) == reports[1]

\* report_name = get_entry(reports[0]) + ".xlsx"
ReportName(reports) == get_entry(reports[1]) \o XlsxExt

\* what a save that fails part-way leaves under the report's name
Truncated == <<<<"truncated">>>>

-----------------------------------------------------------------------------
(* Specification Spec: one run of merge_and_move_reports over a folder.    *)

Header == <<"Date">>
DataRow(f, i) == <<"row", ToString(Tag(f)), ToString(i)>>

\* what A2 holds in the reports of a run; None: the sheet ends after row 1
RunCells == {Jan02, Feb01, Feb1, Dec03, NotADate, None}

\* a report of the run: two header rows, the date in A2, then the data rows
RunSheet(f, cell) ==
    IF cell = None THEN <<Header>>
    ELSE <<Header, cell>> \o [i \in 1..DataRows |-> DataRow(f, i + 2)]

Reverse(s) == [i \in DOMAIN s |-> s[Len(s) + 1 - i]]

\* get_excel_files_in_folder: the .xlsx files of the folder, in the order
\* listdir gives them.  That order is arbitrary; the run takes the files in
\* the order of FileSeq or in the reverse order.
Listings(dir) ==
    LET listed == SelectSeq(FileSeq, LAMBDA f : f \in DOMAIN dir /\ IsXlsx(f))
    IN  {listed, Reverse(listed)}

\* an exception in the loop of merge_daily_partial_reports caught per group
ContinueWithNext(i) ==
    [pc |-> IF i < Len(master_list) THEN "order" ELSE "relocate",
     gi |-> IF i < Len(master_list) THEN i + 1 ELSE i]

\* an exception raised for group i leaves merge_daily_partial_reports and
\* merge_and_move_reports: nothing catches it
Propagate(i) == [pc |-> "failed", gi |-> i]

\* the loop of merge_daily_partial_reports after group i is merged
NextGroupOf(i) ==
    [pc |-> IF i < Len(master_list) THEN "order" ELSE "relocate",
     gi |-> IF i < Len(master_list) THEN i + 1 ELSE i]

Init ==
    /\ pc = "start"
    /\ \E S \in SUBSET Files :
          /\ Cardinality(S) <= MaxFiles
          /\ \E cells \in [S -> RunCells] :
                folder = [f \in S |-> RunSheet(f, cells[f])]
    /\ folder0 = folder
    /\ name = Idle /\ entry = Idle /\ excel_list = Idle
    /\ master_list = Idle /\ err = NoError /\ gi = 0 /\ new_list = Idle
    /\ worksheets = Idle /\ opened = {} /\ deleted = {} /\ written = {}
    /\ failed_at = 0 /\ relocated = FALSE

\* merge_and_move_reports, lines 281-284: list the folder, group the list
ListAndGroup ==
    /\ pc = "start"
    /\ \E reports_list \in Listings(folder) :
          LET r == find_daily_parts(reports_list)
          IN  \/ /\ r.err = NoError
                 /\ master_list' \in r.results
                 /\ pc' = IF master_list' = <<>> THEN "relocate" ELSE "order"
                 /\ gi' = IF master_list' = <<>> THEN 0 ELSE 1
                 /\ err' = NoError
              \/ /\ r.err # NoError
                 /\ master_list' = master_list
                 /\ pc' = "failed"
                 /\ gi' = gi
                 /\ err' = r.err
    /\ UNCHANGED <<name, entry, excel_list, folder, folder0, new_list,
                   worksheets, opened, deleted, written, failed_at, relocated>>

\* merge_daily_partial_reports, line 206: order the current group
OrderGroup ==
    /\ pc = "order"
    /\ LET ilist == master_list[gi]
           r == order_excel_list(ilist, folder)
       IN  /\ opened' = opened \cup {ilist[k] : k \in 1..r.n}
           /\ \/ /\ r.err = NoError
                 /\ new_list' = r.return_list
                 /\ worksheets' = <<>>
                 /\ pc' = "merge"
                 /\ UNCHANGED <<gi, err, failed_at>>
              \/ /\ r.err # NoError
                 /\ pc' = Propagate(gi).pc
                 /\ gi' = Propagate(gi).gi
                 /\ err' = r.err
                 /\ failed_at' = gi
                 /\ UNCHANGED <<new_list, worksheets>>
    /\ UNCHANGED <<name, entry, excel_list, master_list, folder, folder0,
                   deleted, written, relocated>>

\* merge_daily_report_parts, lines 47-53: one iteration of the loading loop
LoadSheet ==
    /\ pc = "merge"
    /\ Len(worksheets) < Len(new_list)
    /\ LET val == new_list[Len(worksheets) + 1]
       IN  /\ val \in DOMAIN folder
           /\ worksheets' = Append(worksheets, folder[val])
           /\ folder' = RemoveAfterLoad(folder, val)
           /\ opened' = opened \cup {val}
           /\ deleted' = deleted \cup (DOMAIN folder \ DOMAIN folder')
    /\ UNCHANGED <<pc, name, entry, excel_list, master_list, err, folder0, gi,
                   new_list, written, failed_at, relocated>>

\* the same iteration when load_workbook raises: the file is gone or cannot
\* be read now
LoadSheetFails ==
    /\ pc = "merge"
    /\ Len(worksheets) < Len(new_list)
    /\ opened' = opened \cup {new_list[Len(worksheets) + 1]}
    /\ pc' = Propagate(gi).pc
    /\ gi' = Propagate(gi).gi
    /\ err' = "LoadError"
    /\ failed_at' = gi
    /\ UNCHANGED <<name, entry, excel_list, master_list, folder, folder0,
                   new_list, worksheets, deleted, written, relocated>>

\* merge_daily_report_parts, lines 55-74: append the rows, save, and go on
\* with the next group
SaveReport ==
    /\ pc = "merge"
    /\ Len(worksheets) = Len(new_list)
    /\ Len(new_list) > 0
    /\ folder' = (ReportName(new_list) :> MergedSheet(worksheets)) @@ folder
    /\ written' = written \cup {ReportName(new_list)}
    /\ pc' = NextGroupOf(gi).pc
    /\ gi' = NextGroupOf(gi).gi
    /\ UNCHANGED <<name, entry, excel_list, master_list, err, folder0,
                   new_list, worksheets, opened, deleted, failed_at, relocated>>

\* the same step when workbooks[0].save raises, before or after the file is
\* created
SaveFails ==
    /\ pc = "merge"
    /\ Len(worksheets) = Len(new_list)
    /\ Len(new_list) > 0
    /\ \/ folder' = folder
       \/ folder' = (ReportName(new_list) :> Truncated) @@ folder
    /\ pc' = Propagate(gi).pc
    /\ gi' = Propagate(gi).gi
    /\ err' = "SaveError"
    /\ failed_at' = gi
    /\ UNCHANGED <<name, entry, excel_list, master_list, folder0, new_list,
                   worksheets, opened, deleted, written, relocated>>

\* merge_and_move_reports, lines 289-304: list the folder again and copy
\* every report to its destination
Relocate ==
    /\ pc = "relocate"
    /\ relocated' = TRUE
    /\ \/ pc' = "done" /\ err' = err
       \/ pc' = "failed" /\ err' = "CopyError"
    /\ UNCHANGED <<name, entry, excel_list, master_list, folder, folder0, gi,
                   new_list, worksheets, opened, deleted, written, failed_at>>

Next ==
    \/ ListAndGroup
    \/ OrderGroup
    \/ LoadSheet
    \/ LoadSheetFails
    \/ SaveReport
    \/ SaveFails
    \/ Relocate

Spec == Init /\ [][Next]_vars

-----------------------------------------------------------------------------
(* Specification SpecMerge: merge_daily_report_parts applied to one        *)
(* ordered list of files, each with a sheet of any number of rows.         *)

MergeFiles == {FileA1, FileA2, FileA3}

\* a sheet of r rows, every row marked with its file and its row number
RowsSheet(f, r) == [i \in 1..r |-> DataRow(f, i)]

InitMerge ==
    /\ pc = "merge"
    /\ \E S \in SUBSET MergeFiles :
          /\ S # {}
          /\ new_list \in Perms(S)
          /\ \E rows \in [S -> 0..MaxRows] :
                folder = [f \in S |-> RowsSheet(f, rows[f])]
    /\ folder0 = folder
    /\ master_list = <<new_list>>
    /\ gi = 1
    /\ worksheets = <<>>
    /\ name = Idle /\ entry = Idle /\ excel_list = Idle /\ err = NoError
    /\ opened = {} /\ deleted = {} /\ written = {}
    /\ failed_at = 0 /\ relocated = FALSE

NextMerge == LoadSheet \/ SaveReport

SpecMerge == InitMerge /\ [][NextMerge]_vars

-----------------------------------------------------------------------------
(* Specification SpecAbort: find_daily_parts on its own list, and inside   *)
(* a run of merge_and_move_reports.                                        *)

SpecAbort == (InitGroup \/ Init) /\ [][NextGroup \/ Next]_vars

-----------------------------------------------------------------------------
(* Properties.                                                             *)

Max0(x) == IF x > 0 THEN x ELSE 0

RECURSIVE Sum(_)
Sum(ns) == IF ns = <<>> THEN 0 ELSE Head(ns) + Sum(Tail(ns))

RunPcs == {"order", "merge", "relocate", "done", "failed"}

\* the files of the list that have the entry k, counted by position
KeyCount(list, k) == Cardinality({i \in DOMAIN list : get_entry(list[i]) = k})

AllKeyed(list) == \A i \in DOMAIN list : get_entry(list[i]) # <<>>

GroupsWith(f) == {g \in DOMAIN master_list : f \in Range(master_list[g])}

\* C1: for a list of filenames that all have an entry, find_daily_parts
\* returns; every group has two or more members, all of one entry; no two
\* groups share an entry; a filename whose entry occurs twice or more is in
\* exactly one group and one whose entry occurs once is in none; the groups
\* and the files left out as singletons make up the input.
C1_GroupsPartition ==
    /\ (pc = "find_daily_parts_raised") => ~AllKeyed(excel_list)
    /\ (pc = "find_daily_parts_returned") =>
          /\ AllKeyed(excel_list)
          /\ \A g \in DOMAIN master_list :
                /\ Len(master_list[g]) >= 2
                /\ \A i, j \in DOMAIN master_list[g] :
                      get_entry(master_list[g][i]) = get_entry(master_list[g][j])
          /\ \A g, h \in DOMAIN master_list :
                g # h => get_entry(master_list[g][1]) # get_entry(master_list[h][1])
          /\ \A i \in DOMAIN excel_list :
                LET f == excel_list[i]
                IN  IF KeyCount(excel_list, get_entry(f)) >= 2
                    THEN Cardinality(GroupsWith(f)) = 1
                    ELSE GroupsWith(f) = {}
          /\ UNION {Range(master_list[g]) : g \in DOMAIN master_list}
                \cup {f \in Range(excel_list) : KeyCount(excel_list, get_entry(f)) = 1}
             = Range(excel_list)

\* two groups are returned and one file is left out as a singleton
C1_Witness ==
    /\ pc = "find_daily_parts_returned"
    /\ Len(master_list) = 2
    /\ \E f \in Range(excel_list) : KeyCount(excel_list, get_entry(f)) = 1

\* get_entry over the files of a run, computed once for the files of Files
EntryTable == [f \in Files |-> get_entry(f)]

EntryOf(f) == IF f \in Files THEN EntryTable[f] ELSE get_entry(f)

HasEmptyKey(names) == \E f \in names : EntryOf(f) = <<>>

NothingTouched ==
    /\ folder = folder0
    /\ opened = {} /\ deleted = {} /\ written = {}
    /\ ~relocated

\* C2: a filename without an entry, wherever it sits in the list, makes
\* find_daily_parts raise MissingReportEntity and return no group; in a run,
\* no file has been opened, deleted or written when the error is raised.
C2_MissingEntityAborts ==
    /\ (/\ pc \in {"find_daily_parts_returned", "find_daily_parts_raised"}
        /\ HasEmptyKey(Range(excel_list)))
          => /\ pc = "find_daily_parts_raised"
             /\ err = "MissingReportEntity"
             /\ master_list = <<>>
    /\ (pc \in RunPcs /\ HasEmptyKey(DOMAIN folder0))
          => /\ pc = "failed"
             /\ err = "MissingReportEntity"
             /\ master_list = <<>>
             /\ NothingTouched

\* a run over a folder that holds a group and a file without an entry
C2_Witness ==
    /\ pc = "failed"
    /\ err = "MissingReportEntity"
    /\ \E f, g \in DOMAIN folder0 : f # g /\ EntryOf(f) = EntryOf(g)

\* the maximal runs of digits of a name, as <<first, last>>
DigitRuns(nm) ==
    {r \in (1..Len(nm)) \X (1..Len(nm)) :
        /\ r[1] <= r[2]
        /\ \A k \in r[1]..r[2] : nm[k] \in Digits
        /\ r[1] = 1 \/ nm[r[1] - 1] \notin Digits
        /\ r[2] = Len(nm) \/ nm[r[2] + 1] \notin Digits}

RunLength(r) == r[2] - r[1] + 1

FirstRun(runs) == CHOOSE r \in runs : \A q \in runs : r[1] <= q[1]

\* C3 as stated: the prefix through the first run of exactly eight digits,
\* and the empty entry when no run has exactly eight digits.
C3_ExactRun ==
    (pc = "get_entry_returned") =>
        LET exact == {r \in DigitRuns(name) : RunLength(r) = EntryDigits}
        IN  IF exact = {} THEN entry = <<>>
            ELSE entry = SubSeq(name, 1, FirstRun(exact)[2])

\* C3: get_entry returns the prefix of the filename through the first eight
\* digits of its first run of eight or more digits, and the empty entry when
\* no run has eight digits.
C3_FirstEightDigits ==
    (pc = "get_entry_returned") =>
        LET long == {r \in DigitRuns(name) : RunLength(r) >= EntryDigits}
        IN  IF long = {} THEN entry = <<>>
            ELSE entry = SubSeq(name, 1, FirstRun(long)[1] + EntryDigits - 1)

\* the entry ends inside a run of more than eight digits
C3_Witness ==
    /\ pc = "get_entry_returned"
    /\ entry # <<>>
    /\ \E r \in DigitRuns(name) :
          RunLength(r) > EntryDigits /\ Len(entry) = r[1] + EntryDigits - 1

\* the date order_excel_list reads from a file of the run
ParsedDate(f) == strptime(CellA2(folder0[f]))

Parses(f) == ParsedDate(f) # ParseError

DistinctDates(list) ==
    /\ \A i \in DOMAIN list : Parses(list[i])
    /\ \A i, j \in DOMAIN list : i # j => ParsedDate(list[i]) # ParsedDate(list[j])

HasDuplicateDate(list) ==
    \E i, j \in DOMAIN list :
        i < j /\ Parses(list[i]) /\ Parses(list[j])
              /\ ParsedDate(list[i]) = ParsedDate(list[j])

\* the ordering of group g has been run
OrderingRan(g) == (gi = g /\ pc # "order") \/ gi > g

OrderingErrors == {"DuplicateReportDate", "DateParseError", "FileNotFoundError"}

\* C4: for a group whose files have pairwise distinct parsed dates,
\* order_excel_list returns a permutation of the group with the parsed dates
\* strictly descending.
C4_OrderedDescending ==
    /\ (pc = "merge") =>
          /\ Len(new_list) = Len(master_list[gi])
          /\ Range(new_list) = Range(master_list[gi])
          /\ \A i, j \in DOMAIN new_list : i # j => new_list[i] # new_list[j]
          /\ \A i, j \in DOMAIN new_list :
                i < j => DateLess(ParsedDate(new_list[j]), ParsedDate(new_list[i]))
    /\ (pc = "failed" /\ failed_at > 0 /\ err \in OrderingErrors)
          => ~DistinctDates(master_list[failed_at])

\* a group of three files comes back in another order than it was given
C4_Witness ==
    /\ pc = "merge"
    /\ Len(new_list) = 3
    /\ new_list # master_list[gi]
    /\ new_list # Reverse(master_list[gi])

ReportNameOf(g) == EntryOf(master_list[g][1]) \o XlsxExt

\* no file of group g has been deleted or changed, no output written for it
GroupUntouched(g) ==
    /\ \A f \in Range(master_list[g]) :
          /\ f \in DOMAIN folder
          /\ folder[f] = folder0[f]
          /\ f \notin deleted
    /\ ReportNameOf(g) \notin written

\* a file of the list repeats an earlier date, and every file up to it parses
DuplicateReadFirst(list) ==
    \E j \in DOMAIN list :
        /\ \A k \in 1..j : Parses(list[k])
        /\ \E i \in 1..(j - 1) : ParsedDate(list[i]) = ParsedDate(list[j])

\* C5 as stated: two files of a group with the same parsed date make the
\* ordering raise DuplicateReportDate, with none of the group's files
\* deleted and no output written.
C5_AlwaysDuplicateError ==
    \A g \in DOMAIN master_list :
        (HasDuplicateDate(master_list[g]) /\ OrderingRan(g))
            => /\ pc = "failed" /\ failed_at = g
               /\ err = "DuplicateReportDate"
               /\ GroupUntouched(g)

\* C5: two files of a group with the same parsed date make the ordering of
\* the group raise: DuplicateReportDate, unless a file read before the second
\* of the two does not parse, and then the error of that file; none of the
\* group's files is deleted and no output is written for it.
C5_DuplicateDateAborts ==
    \A g \in DOMAIN master_list :
        (HasDuplicateDate(master_list[g]) /\ OrderingRan(g))
            => /\ pc = "failed" /\ failed_at = g
               /\ err = IF DuplicateReadFirst(master_list[g])
                        THEN "DuplicateReportDate" ELSE "DateParseError"
               /\ GroupUntouched(g)

\* the same date written in two ways in two files of the group
C5_Witness ==
    /\ pc = "failed"
    /\ err = "DuplicateReportDate"
    /\ \E f, h \in Range(master_list[failed_at]) :
          /\ CellA2(folder0[f]) # CellA2(folder0[h])
          /\ ParsedDate(f) = ParsedDate(h)

KeyFiles(dir, k) == {f \in DOMAIN dir : EntryOf(f) = k}

\* C6: after a run without error, every merged group has exactly one file in
\* the folder, named <entry>.xlsx, its other members are gone, every entry
\* of the folder has one file, and grouping again returns no group.
C6_OneFilePerGroup ==
    (pc = "done") =>
        /\ \A g \in DOMAIN master_list :
              LET k == EntryOf(master_list[g][1])
              IN  /\ KeyFiles(folder, k) = {k \o XlsxExt}
                  /\ \A f \in Range(master_list[g]) :
                        f # k \o XlsxExt => f \notin DOMAIN folder
        /\ \A f, h \in DOMAIN folder : EntryOf(f) = EntryOf(h) => f = h
        /\ \A listing \in Listings(folder) :
              /\ find_daily_parts(listing).err = NoError
              /\ find_daily_parts(listing).results = {<<>>}

\* a run that merged two groups
C6_Witness ==
    /\ pc = "done"
    /\ Len(master_list) = 2
    /\ Cardinality(written) = 2

RowCount(i) == Len(folder0[new_list[i]])

Contributed(i) == Max0(RowCount(i) - 2)

\* the rows of the output before the rows of file i >= 2
RowsBefore(i) == RowCount(1) + Sum([j \in 1..(i - 2) |-> Contributed(j + 1)])

MergeReturned == pc = "relocate" /\ ReportName(new_list) \in written

\* the output holds the first file's rows, then rows 3.. of every later file
RowsInListOrder(out) ==
    /\ \A k \in 1..RowCount(1) :
          k <= Len(out) /\ out[k] = folder0[new_list[1]][k]
    /\ \A i \in 2..Len(new_list) :
          \A k \in MinRow..RowCount(i) :
              /\ RowsBefore(i) + k - 2 <= Len(out)
              /\ out[RowsBefore(i) + k - 2] = folder0[new_list[i]][k]

Singletons == {f \in DOMAIN folder0 : KeyFiles(folder0, EntryOf(f)) = {f}}

\* C8: in a run, a file whose entry occurs once in the folder is never
\* deleted, overwritten or changed; when every entry occurs once, grouping
\* returns no group and the folder stays as it was.
C8_SingletonsUntouched ==
    (pc \in RunPcs \cup {"start"}) =>
        /\ \A f \in Singletons :
              /\ f \in DOMAIN folder
              /\ folder[f] = folder0[f]
              /\ f \notin deleted \cup written
        /\ (Singletons = DOMAIN folder0) =>
              /\ master_list = <<>>
              /\ folder = folder0
              /\ opened = {} /\ deleted = {} /\ written = {}

\* a run that merged a group in a folder that also holds a singleton
C8_Witness ==
    /\ pc = "done"
    /\ written # {}
    /\ Singletons # {}

\* the sheet a successful merge of the current group writes
ExpectedMerge == MergedSheet([i \in DOMAIN new_list |-> folder0[new_list[i]]])

NoMergedFile ==
    /\ ReportName(new_list) \notin written
    /\ ~(/\ ReportName(new_list) \in DOMAIN folder
         /\ ReportName(new_list) \notin Range(new_list)
         /\ folder[ReportName(new_list)] = ExpectedMerge)

\* C9: every file merge_daily_report_parts has loaded is deleted before the
\* output is written; when loading the k-th file (k >= 2) or saving fails,
\* a member of the group is deleted and no merged file of the group exists.
C9_DeletedBeforeSaved ==
    /\ (pc = "merge") =>
          /\ \A k \in 1..Len(worksheets) : new_list[k] \notin DOMAIN folder
          /\ ReportName(new_list) \notin written
    /\ (/\ pc = "failed" /\ failed_at > 0
        /\ \/ err = "LoadError" /\ Len(worksheets) >= 1
           \/ err = "SaveError")
          => /\ \E f \in Range(new_list) : f \notin DOMAIN folder
             /\ NoMergedFile

\* loading the second file of a group fails after the first was deleted
C9_Witness ==
    /\ pc = "failed"
    /\ err = "LoadError"
    /\ Len(worksheets) = 1
    /\ new_list[1] \notin DOMAIN folder

\* C10: groups are processed one after another, and once the ordering or
\* the merge of a group has failed no file of a later group is read, deleted
\* or written, no output is produced for it, and the copy step is not
\* reached.
C10_HaltsOnFailure ==
    (pc \in RunPcs) =>
        /\ \A g \in DOMAIN master_list :
              /\ (g > gi \/ (g = gi /\ pc = "order"))
                    => /\ GroupUntouched(g)
                       /\ Range(master_list[g]) \cap opened = {}
              /\ g < gi => /\ ReportNameOf(g) \in written
                           /\ Range(master_list[g]) \subseteq deleted
        /\ (failed_at > 0) =>
              /\ pc = "failed"
              /\ gi = failed_at
              /\ ~relocated
              /\ \A g \in DOMAIN master_list :
                    g > failed_at => /\ GroupUntouched(g)
                                     /\ Range(master_list[g]) \cap opened = {}

\* the first of two groups failed and the second was never started
C10_Witness ==
    /\ pc = "failed"
    /\ failed_at = 1
    /\ Len(master_list) = 2
    /\ opened # {}

====
